---- MODULE Spec2Model ----
(***************************************************************************)
(* A model of the user-management service: the Litestar route handlers of  *)
(* UserController against the relational store, the RabbitMQ publisher and *)
(* consumer, and the request-tracing LoggingMiddleware.                    *)
(*                                                                         *)
(* Eight specifications share the module:                                  *)
(*   Spec          concurrent HTTP requests, each one asyncio task, run    *)
(*                 through the middleware, a route handler, the store and  *)
(*                 publish_user_event; every await is a scheduling point.  *)
(*   SpecMw        the middleware alone, on byte-level ASGI headers.       *)
(*   SpecConsumer  the consumer's user_event_handler on delivered          *)
(*                 messages.                                               *)
(*   SpecList      get_users on tables of several rows, page by page.      *)
(*   SpecValidation  create_user and update_user on bodies with empty or   *)
(*                 missing fields.                                         *)
(*   SpecLifecycle start_consumer and stop_consumer, called in any order.  *)
(*   SpecDelivery  published events routed to the consumer's queue and     *)
(*                 delivered while the consumer starts and stops.          *)
(*   SpecPublisher publish_user_event called by one request after another, *)
(*                 while the cached connection and channel may close.      *)
(***************************************************************************)
EXTENDS Naturals, Integers, Sequences, FiniteSets, TLC

VARIABLES
    \* ---- Spec: store, request tasks, publisher ----
    store,          \* the "user" table: id -> row, for the ids present
    nextId,         \* the BIGSERIAL sequence behind User.id
    now,            \* the database clock read by func.now()
    req,            \* per task slot: the in-flight request and its locals
    reqCount,       \* number of requests accepted so far
    ctx,            \* structlog contextvars, one context per asyncio task
    uuidCount,      \* number of uuid.uuid4() values drawn so far
    pubConnection,  \* producer._connection (0 is None)
    pubChannel,     \* producer._channel (id 0 is None)
    connCount,      \* connections opened by the producer so far
    chanCount,      \* channels opened by the producer so far
    exchange,       \* messages accepted by the user_events exchange, in order
    deleted,        \* history: ids whose DELETE was committed
    \* ---- SpecMw: one worker running LoggingMiddleware.__call__ ----
    mwPc, mwScope, mwTraceId, mwCtx, mwAppMsg, mwSent, mwLog, mwCount,
    mwExc,          \* the exception self.app raised and the one leaving __call__
    \* ---- SpecConsumer: queue and handler ----
    queue,          \* user_events_queue: message id -> message and its state
    cLog,           \* the consumer's log lines
    cCtx,           \* the consumer task's structlog context
    cCount,         \* number of messages delivered so far
    \* ---- SpecList: the responses of get_users ----
    listed,         \* the UserListResponse objects get_users has returned
    \* ---- SpecLifecycle: start_consumer and stop_consumer ----
    lcPc,           \* where the lifespan coroutine stands in start/stop
    lcConnection,   \* consumer._connection (0 is None)
    lcChannel,      \* consumer._channel (0 is None)
    lcTask,         \* consumer._consumer_task: "none" is None, else its state
    lcOpen,         \* the connection and channel objects that are not closed
    lcBroker,       \* exchange, queue, bindings and consumers at the broker
    lcLog,          \* what start_consumer and stop_consumer did, in order
    lcCount,        \* number of start_consumer and stop_consumer calls so far
    \* ---- the publisher's connections and channels at the broker ----
    pubClosed       \* the producer's connection and channel objects that are closed

apiVars == <<store, nextId, now, req, reqCount, ctx, uuidCount,
             pubConnection, pubChannel, connCount, chanCount, exchange,
             deleted>>
mwVars == <<mwPc, mwScope, mwTraceId, mwCtx, mwAppMsg, mwSent, mwLog, mwCount,
            mwExc>>
cVars == <<queue, cLog, cCtx, cCount>>
listVars == <<listed>>
lifeVars == <<lcPc, lcConnection, lcChannel, lcTask, lcOpen, lcBroker, lcLog,
              lcCount>>
pubVars == <<pubClosed>>
vars == <<apiVars, mwVars, cVars, listVars, lifeVars, pubVars>>

-----------------------------------------------------------------------------
(* Bounds of the model *)

NSlots == 2          \* request tasks that can be in flight at once
MaxRequests == 2     \* requests accepted in one behaviour
MaxClock == 1        \* ticks of the database clock
MaxMwRequests == 2   \* requests run through the middleware in SpecMw
MaxDeliveries == 2   \* messages delivered to the consumer in SpecConsumer
MaxListRequests == 3 \* list requests of one behaviour of SpecList
MaxPage == 3         \* largest page number requested in SpecList
MaxPerPage == 2      \* largest per_page requested in SpecList
MaxLifecycleCalls == 3  \* start_consumer / stop_consumer calls in SpecLifecycle
MaxPublishes == 3    \* requests of one behaviour of SpecPublisher
MaxCloses == 2       \* connections and channels that close in SpecPublisher

-----------------------------------------------------------------------------
(* Text.  A Python bytes object is a sequence of numbers 0..255, a str is a *)
(* sequence of code points.                                                 *)

\* The value None where a bytes object or a str is expected.
NoneSeq == <<-1>>

IsCont(b) == b >= 128 /\ b <= 191

\* bytes.decode() raises UnicodeDecodeError exactly when this is FALSE
\* (strict UTF-8: no overlong forms, no surrogates, nothing above U+10FFFF).
RECURSIVE Utf8Valid(_)
Utf8Valid(b) ==
    IF b = <<>> THEN TRUE
    ELSE LET h == Head(b)
             n == Len(b)
         IN  IF h < 128 THEN Utf8Valid(Tail(b))
             ELSE IF h >= 194 /\ h <= 223
                  THEN /\ n >= 2
                       /\ IsCont(b[2])
                       /\ Utf8Valid(SubSeq(b, 3, n))
             ELSE IF h >= 224 /\ h <= 239
                  THEN /\ n >= 3
                       /\ IsCont(b[2])
                       /\ IsCont(b[3])
                       /\ (h = 224 => b[2] >= 160)
                       /\ (h = 237 => b[2] <= 159)
                       /\ Utf8Valid(SubSeq(b, 4, n))
             ELSE IF h >= 240 /\ h <= 244
                  THEN /\ n >= 4
                       /\ IsCont(b[2])
                       /\ IsCont(b[3])
                       /\ IsCont(b[4])
                       /\ (h = 240 => b[2] >= 144)
                       /\ (h = 244 => b[2] <= 143)
                       /\ Utf8Valid(SubSeq(b, 5, n))
             ELSE FALSE

\* bytes.decode() on valid UTF-8: the code points.
RECURSIVE BytesDecode(_)
BytesDecode(b) ==
    IF b = <<>> THEN <<>>
    ELSE LET h == Head(b)
             n == Len(b)
         IN  IF h < 128 THEN <<h>> \o BytesDecode(Tail(b))
             ELSE IF h <= 223
                  THEN <<(h - 192) * 64 + (b[2] - 128)>>
                       \o BytesDecode(SubSeq(b, 3, n))
             ELSE IF h <= 239
                  THEN <<(h - 224) * 4096 + (b[2] - 128) * 64 + (b[3] - 128)>>
                       \o BytesDecode(SubSeq(b, 4, n))
             ELSE <<(h - 240) * 262144 + (b[2] - 128) * 4096
                    + (b[3] - 128) * 64 + (b[4] - 128)>>
                  \o BytesDecode(SubSeq(b, 5, n))

\* str.encode(): UTF-8.
RECURSIVE StrEncode(_)
StrEncode(s) ==
    IF s = <<>> THEN <<>>
    ELSE LET c == Head(s)
         IN  (IF c < 128 THEN <<c>>
              ELSE IF c < 2048 THEN <<192 + (c \div 64), 128 + (c % 64)>>
              ELSE IF c < 65536
                   THEN <<224 + (c \div 4096), 128 + ((c \div 64) % 64),
                          128 + (c % 64)>>
              ELSE <<240 + (c \div 262144), 128 + ((c \div 4096) % 64),
                     128 + ((c \div 64) % 64), 128 + (c % 64)>>)
             \o StrEncode(Tail(s))

\* str(uuid.uuid4()): 8-4-4-4-12 lower-case hex digits, version nibble 4,
\* variant nibble 8; the n-th draw differs from every other in its last digit.
Uuid4(n) ==
    <<48,48,48,48,48,48,48,48, 45, 48,48,48,48, 45, 52,48,48,48, 45,
      56,48,48,48, 45, 48,48,48,48,48,48,48,48,48,48,48, 48 + (n % 10)>>

\* uuid.UUID(text) of the tests accepts a text when, with "urn:" and "uuid:"
\* removed, braces stripped from both ends and hyphens removed, 32
\* hexadecimal digits remain.
HexDigit(c) == c \in (48 .. 57) \cup (97 .. 102) \cup (65 .. 70)

StartsWith(s, prefix) ==
    Len(s) >= Len(prefix) /\ SubSeq(s, 1, Len(prefix)) = prefix

RECURSIVE RemoveAll(_, _)
RemoveAll(s, pattern) ==
    IF s = <<>> THEN <<>>
    ELSE IF StartsWith(s, pattern)
         THEN RemoveAll(SubSeq(s, Len(pattern) + 1, Len(s)), pattern)
    ELSE <<Head(s)>> \o RemoveAll(Tail(s), pattern)

RECURSIVE StripBraces(_)
StripBraces(s) ==
    IF s = <<>> THEN <<>>
    ELSE IF Head(s) \in {123, 125} THEN StripBraces(Tail(s))
    ELSE IF s[Len(s)] \in {123, 125} THEN StripBraces(SubSeq(s, 1, Len(s) - 1))
    ELSE s

IsUuidText(s) ==
    LET hex == RemoveAll(StripBraces(RemoveAll(RemoveAll(s, <<117,114,110,58>>),
                                               <<117,117,105,100,58>>)),
                         <<45>>)
    IN  Len(hex) = 32 /\ \A i \in 1 .. 32 : HexDigit(hex[i])

-----------------------------------------------------------------------------
(* LoggingMiddleware *)

\* dict(scope.get("headers", [])).get(name): the last pair with that name
\* wins; None when there is none.
RECURSIVE HeadersGet(_, _)
HeadersGet(hs, name) ==
    IF hs = <<>> THEN NoneSeq
    ELSE LET last == hs[Len(hs)]
         IN  IF last[1] = name THEN last[2]
             ELSE HeadersGet(SubSeq(hs, 1, Len(hs) - 1), name)

\* _get_trace_id_from_headers takes the header when it is present, not empty
\* and decodable; otherwise it draws a UUID.
UsesRequestId(hs) ==
    LET h == HeadersGet(hs, "x-request-id")
    IN  h # NoneSeq /\ h # <<>> /\ Utf8Valid(h)

\* a middleware that takes the header only when it is the text of a UUID
GetTraceIdIfUuid(hs, fresh) ==
    IF UsesRequestId(hs) /\ IsUuidText(BytesDecode(HeadersGet(hs, "x-request-id")))
    THEN BytesDecode(HeadersGet(hs, "x-request-id"))
    ELSE fresh

GetTraceIdFromHeaders(hs, fresh) ==
    IF UsesRequestId(hs) THEN BytesDecode(HeadersGet(hs, "x-request-id"))
    ELSE fresh

\* a send that sets the response's headers to the trace header alone
LoggingSendReplacing(message, trace_id) ==
    IF message.type = "http.response.start"
    THEN [message EXCEPT !.headers = <<<<"X-Trace-Id", StrEncode(trace_id)>>>>]
    ELSE message

\* logging_send: an http.response.start message gets the X-Trace-Id header
\* appended to its headers; any other message passes unchanged.
LoggingSend(message, trace_id) ==
    IF message.type = "http.response.start"
    THEN [message EXCEPT !.headers = @ \o <<<<"X-Trace-Id", StrEncode(trace_id)>>>>]
    ELSE message

\* structlog.contextvars: a context is a set of <<key, value>> bindings.
\* a clear that leaves the bindings in place
ClearContextvarsKeeping(c) == c

\* clear_contextvars()
ClearContextvars(c) == {}

BindContextvars(c, key, value) == {p \in c : p[1] # key} \cup {<<key, value>>}

\* get_contextvars().get(key, default)
ContextGet(c, key, default) ==
    IF \E p \in c : p[1] = key THEN (CHOOSE p \in c : p[1] = key)[2]
    ELSE default

\* ---- inputs of SpecMw ----
ValidUuidBytes == <<49,50,51,101,52,53,54,55,45,101,56,57,98,45,52,50,100,51,45,97,52,53,54,45,52,50,54,54,49,52,49,55,52,48,48,48>>
InvalidUuidBytes == <<105,110,118,97,108,105,100,45,117,117,105,100>>
TokenBytes == <<84>>
NonAsciiBytes == <<99, 195, 169>>
UndecodableBytes == <<255, 254>>
JsonType == <<97,112,112,108,105,99,97,116,105,111,110,47,106,115,111,110>>

RequestIdValues ==
    {ValidUuidBytes, InvalidUuidBytes, TokenBytes, NonAsciiBytes,
     UndecodableBytes, <<>>}

\* scope["headers"]: none, one X-Request-Id (alone or after another header),
\* or X-Request-Id twice.
ScopeHeaderChoices ==
    {<<>>, <<<<"accept", JsonType>>>>}
    \cup {<<<<"x-request-id", v>>>> : v \in RequestIdValues}
    \cup {<<<<"accept", JsonType>>, <<"x-request-id", v>>>> :
             v \in {TokenBytes, <<>>}}
    \cup {<<<<"x-request-id", TokenBytes>>, <<"x-request-id", InvalidUuidBytes>>>>}

\* headers a handler's response already carries
AppHeaderChoices ==
    {<<>>,
     <<<<"content-type", JsonType>>>>,
     <<<<"content-type", JsonType>>, <<"content-length", <<50>>>>>>}

AppStatusChoices == {200, 201, 400, 404, 500}

StartMessage(status, headers) ==
    [type |-> "http.response.start", status |-> status, headers |-> headers]

BodyMessage == [type |-> "http.response.body", status |-> 0, headers |-> <<>>]

LifespanMessage ==
    [type |-> "lifespan.startup.complete", status |-> 0, headers |-> <<>>]

\* no exception
NoException == [app |-> "none", out |-> "none"]

LogLine(event, c, status) ==
    [event |-> event, trace_id |-> ContextGet(c, "trace_id", NoneSeq),
     status |-> status]

\* __call__ up to the call of self.app, for an HTTP scope: the trace id, the
\* logging context cleared and bound, "Request started" logged.
MwCallHttp(hs) ==
    /\ mwPc \in {"idle", "done", "raised"}
    /\ mwCount < MaxMwRequests
    /\ LET trace_id == GetTraceIdFromHeaders(hs, Uuid4(mwCount))
           c == BindContextvars(ClearContextvars(mwCtx), "trace_id", trace_id)
       IN  /\ mwTraceId' = trace_id
           /\ mwCtx' = c
           /\ mwLog' = <<LogLine("Request started", c, 0)>>
    /\ mwScope' = [type |-> "http", headers |-> hs]
    /\ mwAppMsg' = <<>>
    /\ mwSent' = <<>>
    /\ mwCount' = mwCount + 1
    /\ mwExc' = NoException
    /\ mwPc' = "app"
    /\ UNCHANGED <<apiVars, cVars, listVars, lifeVars, pubVars>>

\* __call__ for a scope that is not HTTP: the application runs with the
\* caller's send, nothing is logged or bound.
MwCallOther ==
    /\ mwPc \in {"idle", "done", "raised"}
    /\ mwCount < MaxMwRequests
    /\ mwScope' = [type |-> "lifespan", headers |-> <<>>]
    /\ mwAppMsg' = <<LifespanMessage>>
    /\ mwSent' = <<LifespanMessage>>
    /\ mwLog' = <<>>
    /\ mwCount' = mwCount + 1
    /\ mwExc' = NoException
    /\ mwPc' = "done"
    /\ UNCHANGED <<mwTraceId, mwCtx, apiVars, cVars, listVars, lifeVars, pubVars>>

\* the application sends http.response.start through logging_send
MwAppSendStart(status, headers) ==
    /\ mwPc = "app"
    /\ LET message == StartMessage(status, headers)
       IN  /\ mwAppMsg' = Append(mwAppMsg, message)
           /\ mwSent' = Append(mwSent, LoggingSend(message, mwTraceId))
    /\ mwPc' = "started"
    /\ UNCHANGED <<mwScope, mwTraceId, mwCtx, mwLog, mwCount, mwExc, apiVars,
                   cVars, listVars, lifeVars, pubVars>>

\* the application sends http.response.body through logging_send
MwAppSendBody ==
    /\ mwPc = "started"
    /\ mwAppMsg' = Append(mwAppMsg, BodyMessage)
    /\ mwSent' = Append(mwSent, LoggingSend(BodyMessage, mwTraceId))
    /\ mwPc' = "body"
    /\ UNCHANGED <<mwScope, mwTraceId, mwCtx, mwLog, mwCount, mwExc, apiVars,
                   cVars, listVars, lifeVars, pubVars>>

\* self.app returns: "Request completed" is logged with the captured status
MwAppReturn ==
    /\ mwPc = "body"
    /\ mwLog' = Append(mwLog, LogLine("Request completed", mwCtx, mwAppMsg[1].status))
    /\ mwPc' = "done"
    /\ UNCHANGED <<mwScope, mwTraceId, mwCtx, mwAppMsg, mwSent, mwCount, mwExc,
                   apiVars, cVars, listVars, lifeVars, pubVars>>

\* what self.app can raise: an Exception, or asyncio.CancelledError, which
\* derives from BaseException only
RaiseChoices == {"RuntimeError", "CancelledError"}

\* "except Exception" matches
IsException(exc) == exc # "CancelledError"

\* an except clause without the raise
MwExceptSwallowing(log, c, exc) ==
    [log |-> Append(log, LogLine("Request failed", c, 0)), out |-> "none"]

\* the try statement around self.app when self.app raises exc: "except
\* Exception" logs "Request failed" and re-raises with a bare raise; any
\* other exception passes through
MwExcept(log, c, exc) ==
    IF IsException(exc)
    THEN [log |-> Append(log, LogLine("Request failed", c, 0)), out |-> exc]
    ELSE [log |-> log, out |-> exc]

\* self.app binds a value of its own in the logging context
MwAppBind ==
    /\ mwPc = "app"
    /\ ContextGet(mwCtx, "user", NoneSeq) = NoneSeq
    /\ mwCtx' = BindContextvars(mwCtx, "user", <<mwCount>>)
    /\ UNCHANGED <<mwPc, mwScope, mwTraceId, mwAppMsg, mwSent, mwLog, mwCount,
                   mwExc, apiVars, cVars, listVars, lifeVars, pubVars>>

\* self.app raises, before or after it sent its response
MwAppRaise(exc) ==
    /\ mwPc \in {"app", "started", "body"}
    /\ mwLog' = MwExcept(mwLog, mwCtx, exc).log
    /\ mwExc' = [app |-> exc, out |-> MwExcept(mwLog, mwCtx, exc).out]
    /\ mwPc' = "raised"
    /\ UNCHANGED <<mwScope, mwTraceId, mwCtx, mwAppMsg, mwSent, mwCount, apiVars, cVars,
                   listVars, lifeVars, pubVars>>

MwInit ==
    /\ mwPc = "idle"
    /\ mwScope = [type |-> "none", headers |-> <<>>]
    /\ mwTraceId = NoneSeq
    /\ mwCtx = {}
    /\ mwAppMsg = <<>>
    /\ mwSent = <<>>
    /\ mwLog = <<>>
    /\ mwCount = 0
    /\ mwExc = NoException

MwNext ==
    \/ \E hs \in ScopeHeaderChoices : MwCallHttp(hs)
    \/ MwCallOther
    \/ \E status \in AppStatusChoices, headers \in AppHeaderChoices :
          MwAppSendStart(status, headers)
    \/ MwAppSendBody
    \/ MwAppReturn
    \/ MwAppBind
    \/ \E exc \in RaiseChoices : MwAppRaise(exc)

-----------------------------------------------------------------------------
(* The store and the route handlers (Spec) *)

Slots == 1 .. NSlots

\* Python's None where a text value or a row is expected
None == "<None>"

NoUser ==
    [id |-> 0, name |-> None, surname |-> None, password |-> None,
     created_at |-> 0, updated_at |-> 0]

NoPatch == [name |-> None, surname |-> None, password |-> None]

TextFields == {"name", "surname", "password"}

\* select(User).where(User.id == user_id) ... scalar_one_or_none()
SelectUser(table, user_id) ==
    IF \E u \in table : u.id = user_id
    THEN CHOOSE u \in table : u.id = user_id
    ELSE NoUser

\* ids in ascending order: order_by(User.id)
RECURSIVE OrderById(_)
OrderById(ids) ==
    IF ids = {} THEN <<>>
    ELSE LET m == CHOOSE i \in ids : \A j \in ids : i <= j
         IN  <<m>> \o OrderById(ids \ {m})

\* a page query whose offset is page * per_page
SelectPageFromZero(table, page, per_page) ==
    LET ordered == OrderById({u.id : u \in table})
        offset == page * per_page
        last == IF offset + per_page < Len(ordered) THEN offset + per_page
                ELSE Len(ordered)
    IN  SubSeq(ordered, offset + 1, last)

\* select(User).offset(offset).limit(per_page).order_by(User.id): the ids
SelectPage(table, page, per_page) ==
    LET ordered == OrderById({u.id : u \in table})
        offset == (page - 1) * per_page
        last == IF offset + per_page < Len(ordered) THEN offset + per_page
                ELSE Len(ordered)
    IN  SubSeq(ordered, offset + 1, last)

\* an update that assigns every field of the body, absent ones included
ApplyPatchUnconditional(user, data) ==
    [user EXCEPT !.name = data.name, !.surname = data.surname,
                 !.password = data.password]

\* update_user's "if data.<field> is not None: user.<field> = data.<field>"
ApplyPatch(user, data) ==
    [user EXCEPT
        !.name = IF data.name # None THEN data.name ELSE @,
        !.surname = IF data.surname # None THEN data.surname ELSE @,
        !.password = IF data.password # None THEN data.password ELSE @]

\* an UPDATE that writes every column of the loaded object
DirtyFieldsAll(loaded, user) == TextFields

\* the attributes whose value differs from the loaded one: the columns the
\* unit of work puts in the UPDATE's SET clause
DirtyFields(loaded, user) == {f \in TextFields : user[f] # loaded[f]}

\* an UPDATE that sets updated_at back to the column's zero value
UpdateRowResettingStamp(row, user, dirty, tx) ==
    [row EXCEPT
        !.name = IF "name" \in dirty THEN user.name ELSE @,
        !.surname = IF "surname" \in dirty THEN user.surname ELSE @,
        !.password = IF "password" \in dirty THEN user.password ELSE @,
        !.updated_at = 0]

\* UPDATE "user" SET <dirty columns>, updated_at = now() WHERE id = ...
UpdateRow(row, user, dirty, tx) ==
    [row EXCEPT
        !.name = IF "name" \in dirty THEN user.name ELSE @,
        !.surname = IF "surname" \in dirty THEN user.surname ELSE @,
        !.password = IF "password" \in dirty THEN user.password ELSE @,
        !.updated_at = tx]

\* a handler that goes on without the check
NotFoundUnchecked(user) == FALSE

\* "if not user": the 404 branch of get_user, update_user and delete_user
NotFound(user) == user = NoUser

\* the detail of a response that has none
NoDetail == [text |-> "", id |-> 0]

\* a detail that does not say which user
NotFoundDetailPlain(user_id) == [text |-> "User not found", id |-> 0]

\* detail=f"User with id {user_id} not found"
NotFoundDetail(user_id) == [text |-> "User with id {} not found", id |-> user_id]

\* status of the handler's normal response (create is 201, delete is 200)
SuccessStatus(op) == IF op = "create" THEN 201 ELSE 200

EventType(op) ==
    IF op = "create" THEN "user.created"
    ELSE IF op = "update" THEN "user.updated"
    ELSE "user.deleted"

UnknownStr == <<117,110,107,110,111,119,110>>

\* json.dumps(value).encode() of a dict: the body is the JSON text of an
\* object.  Other bodies a queue can hold: the JSON text of something that is
\* no object ("array"), text that is no JSON ("text"), bytes that are no
\* UTF-8 ("bytes").
JsonDumps(value) == [kind |-> "object", value |-> value]

\* a value that is no dict, where a dict is expected
NotADict == [nondict |-> TRUE]

\* ---- inputs of Spec ----
TargetIds == {1}

CreateData == [name |-> "n0", surname |-> "s0", password |-> "p0"]

Patches ==
    {[name |-> "n1", surname |-> None, password |-> None],
     [name |-> None, surname |-> "s1", password |-> None],
     NoPatch}

\* get_users' defaults: page = 1, per_page = 10
DefaultPage == [page |-> 1, per_page |-> 10]

Call(op, uid, data) ==
    [op |-> op, uid |-> uid, data |-> data, page |-> DefaultPage.page,
     per_page |-> DefaultPage.per_page]

\* GET /users?page=..&per_page=..
ListCall(page, per_page) ==
    [Call("list", 0, NoPatch) EXCEPT !.page = page, !.per_page = per_page]

Calls ==
    {Call("create", 0, CreateData), Call("list", 0, NoPatch)}
    \cup {Call(op, uid, NoPatch) : op \in {"get", "delete"}, uid \in TargetIds}
    \cup {Call("update", uid, data) : uid \in TargetIds, data \in Patches}

ApiHeaderChoices == {<<>>, <<<<"x-request-id", TokenBytes>>>>}

NoMessage == StartMessage(0, <<>>)

NoBody == [kind |-> "none", value |-> NotADict]

\* _channel = None
NoChannel == [id |-> 0, connection |-> 0]

IdleReq ==
    [pc |-> "idle", no |-> 0, op |-> "none", uid |-> 0, data |-> NoPatch,
     page |-> 0, per_page |-> 0,
     trace_id |-> NoneSeq, user |-> NoUser, dirty |-> {}, tx |-> 0,
     connection |-> 0, channel |-> NoChannel, body |-> NoBody, status |-> 0, detail |-> NoDetail,
     users |-> <<>>, total |-> 0, response |-> NoMessage,
     committed |-> 0, pubError |-> "none", deletedBefore |-> {}]

\* the database clock at the start of a transaction: func.now() is the
\* transaction's start time
TxTimes == {t \in {now, now + 1} : t <= MaxClock}

\* one context for the whole process
ProcessContext(s) == 1

\* contextvars: each asyncio task runs in its own context, so the bindings of
\* the task handling a request are that task's alone
TaskContext(s) == s

\* Decoding the request body into the handler's `data` parameter: UserCreate
\* wants a str for each of name, surname and password, UserUpdate takes a str
\* or None for each.  A str of any length is a str.
ValidBody(call) ==
    call.op = "create" => \A f \in TextFields : call.data[f] # None

\* A request arrives and is given to the first free worker task s:
\* LoggingMiddleware.__call__ takes the trace id, clears and binds the logging
\* context, and calls the application: a body that does not decode is
\* answered with 400, otherwise the handler runs to its first await.
Admit(s, call, hs) ==
    /\ req[s].pc \in {"idle", "done"}
    /\ \A t \in Slots : req[t].pc \in {"idle", "done"} => s <= t
    /\ LET trace_id == GetTraceIdFromHeaders(hs, Uuid4(uuidCount))
       IN  /\ ctx' = [ctx EXCEPT ![TaskContext(s)] =
                        BindContextvars(ClearContextvars(ctx[TaskContext(s)]),
                                        "trace_id", trace_id)]
           /\ req' = [req EXCEPT ![s] =
                        [IdleReq EXCEPT !.pc = IF ValidBody(call) THEN "handler"
                                               ELSE "respond",
                                        !.status = IF ValidBody(call) THEN 0
                                                   ELSE 400,
                                        !.no = reqCount + 1,
                                        !.op = call.op, !.uid = call.uid,
                                        !.data = call.data,
                                        !.page = call.page,
                                        !.per_page = call.per_page,
                                        !.trace_id = trace_id,
                                        !.deletedBefore = deleted]]
    /\ uuidCount' = IF UsesRequestId(hs) THEN uuidCount ELSE uuidCount + 1
    /\ reqCount' = reqCount + 1
    /\ UNCHANGED <<store, nextId, now, pubConnection, pubChannel, connCount,
                   chanCount, exchange, deleted, mwVars, cVars,
                   listVars, lifeVars, pubVars>>

\* a request of the concurrent workload of Spec
Accept(s, call, hs) ==
    /\ reqCount < MaxRequests
    /\ Admit(s, call, hs)

\* a total taken from the largest id
CountUsersByMaxId(table) ==
    IF table = {} THEN 0
    ELSE CHOOSE i \in {u.id : u \in table} : \A u \in table : u.id <= i

\* len(total_result.all()) of select(User).with_only_columns(User.id)
CountUsers(table) == Cardinality({u.id : u \in table})

\* the UserListResponse get_users returns; a user stands for its UserResponse
UserListResponse(users, total, page, per_page) ==
    [users |-> users, total |-> total, page |-> page, per_page |-> per_page]

\* get_users: the count query
GetUsers(s) ==
    /\ req[s].pc = "handler" /\ req[s].op = "list"
    /\ req' = [req EXCEPT ![s].total = CountUsers(store),
                          ![s].pc = "paging"]
    /\ UNCHANGED <<store, nextId, now, reqCount, ctx, uuidCount, pubConnection,
                   pubChannel, connCount, chanCount, exchange, deleted, mwVars, cVars,
                   listVars, lifeVars, pubVars>>

\* get_users: the page query, then the response object is built
GetUsersPage(s) ==
    /\ req[s].pc = "paging"
    /\ LET users == SelectPage(store, req[s].page, req[s].per_page)
       IN  /\ req' = [req EXCEPT ![s].users = users,
                                 ![s].status = 200,
                                 ![s].pc = "respond"]
           /\ listed' = listed \cup {UserListResponse(users, req[s].total,
                                                       req[s].page,
                                                       req[s].per_page)}
    /\ UNCHANGED <<store, nextId, now, reqCount, ctx, uuidCount, pubConnection,
                   pubChannel, connCount, chanCount, exchange, deleted, mwVars, cVars,
                   lifeVars, pubVars>>

\* get_user: the SELECT, then 404 or the user
GetUser(s) ==
    /\ req[s].pc = "handler" /\ req[s].op = "get"
    /\ LET user == SelectUser(store, req[s].uid)
       IN  req' = IF NotFound(user)
                  THEN [req EXCEPT ![s].status = 404,
                                   ![s].detail = NotFoundDetail(req[s].uid),
                                   ![s].pc = "respond"]
                  ELSE [req EXCEPT ![s].user = user,
                                   ![s].status = 200,
                                   ![s].pc = "respond"]
    /\ UNCHANGED <<store, nextId, now, reqCount, ctx, uuidCount, pubConnection,
                   pubChannel, connCount, chanCount, exchange, deleted, mwVars, cVars,
                   listVars, lifeVars, pubVars>>

\* an id that follows the largest one in the table, so that the id of a
\* deleted last row is given out again
NextUserIdAfterMax(sequence, table) ==
    IF table = {} THEN 1
    ELSE (CHOOSE i \in {u.id : u \in table} : \A u \in table : u.id <= i) + 1

\* User.id is an auto-increment BIGINT: the INSERT takes the next value of
\* the table's sequence, whatever rows the table holds
NextUserId(sequence, table) == sequence

\* create_user: session.add(user); await session.commit().  The INSERT takes
\* the next value of the id sequence and now() for both timestamps.
CreateCommit(s) ==
    /\ req[s].pc = "handler" /\ req[s].op = "create"
    /\ \E t \in TxTimes :
          LET row == [id |-> NextUserId(nextId, store),
                      name |-> req[s].data.name,
                      surname |-> req[s].data.surname,
                      password |-> req[s].data.password,
                      created_at |-> t, updated_at |-> t]
          IN  /\ store' = store \cup {row}
              /\ now' = t
              /\ req' = [req EXCEPT ![s].user = [row EXCEPT !.created_at = 0,
                                                            !.updated_at = 0],
                                    ![s].tx = t,
                                    ![s].committed = row.id,
                                    ![s].pc = "refresh"]
    /\ nextId' = nextId + 1
    /\ UNCHANGED <<reqCount, ctx, uuidCount, pubConnection, pubChannel,
                   connCount, chanCount, exchange, deleted, mwVars, cVars,
                   listVars, lifeVars, pubVars>>

\* update_user and delete_user: the SELECT that opens the transaction, then
\* 404, or the patch applied to the loaded object / the object marked deleted
SelectForChange(s) ==
    /\ req[s].pc = "handler" /\ req[s].op \in {"update", "delete"}
    /\ \E t \in TxTimes :
          LET loaded == SelectUser(store, req[s].uid)
              user == IF req[s].op = "update" THEN ApplyPatch(loaded, req[s].data)
                      ELSE loaded
          IN  /\ now' = t
              /\ req' = IF NotFound(loaded)
                        THEN [req EXCEPT ![s].status = 404,
                                         ![s].detail = NotFoundDetail(req[s].uid),
                                         ![s].pc = "respond"]
                        ELSE [req EXCEPT ![s].user = user,
                                         ![s].dirty = DirtyFields(loaded, user),
                                         ![s].tx = t,
                                         ![s].pc = "commit"]
    /\ UNCHANGED <<store, nextId, reqCount, ctx, uuidCount, pubConnection,
                   pubChannel, connCount, chanCount, exchange, deleted, mwVars, cVars,
                   listVars, lifeVars, pubVars>>

\* update_user: await session.commit().  With no changed attribute nothing is
\* flushed.  Otherwise the UPDATE must match the row: when it matches none
\* the unit of work raises StaleDataError and the request ends in 500.
UpdateCommit(s) ==
    /\ req[s].pc = "commit" /\ req[s].op = "update"
    /\ LET row == SelectUser(store, req[s].uid)
       IN  IF req[s].dirty = {}
           THEN /\ req' = [req EXCEPT ![s].committed = req[s].uid,
                                      ![s].pc = "refresh"]
                /\ store' = store
           ELSE IF row = NoUser
           THEN /\ req' = [req EXCEPT ![s].status = 500, ![s].pc = "respond"]
                /\ store' = store
           ELSE /\ store' = (store \ {row})
                       \cup {UpdateRow(row, req[s].user, req[s].dirty, req[s].tx)}
                /\ req' = [req EXCEPT ![s].committed = req[s].uid,
                                      ![s].pc = "refresh"]
    /\ UNCHANGED <<nextId, now, reqCount, ctx, uuidCount, pubConnection,
                   pubChannel, connCount, chanCount, exchange, deleted, mwVars, cVars,
                   listVars, lifeVars, pubVars>>

\* delete_user: await session.delete(user); await session.commit().  A DELETE
\* that matches no row only warns.
DeleteCommit(s) ==
    /\ req[s].pc = "commit" /\ req[s].op = "delete"
    /\ store' = {u \in store : u.id # req[s].uid}
    /\ deleted' = deleted \cup {req[s].uid}
    /\ req' = [req EXCEPT ![s].committed = req[s].uid, ![s].pc = "publish"]
    /\ UNCHANGED <<nextId, now, reqCount, ctx, uuidCount, pubConnection,
                   pubChannel, connCount, chanCount, exchange, mwVars, cVars,
                   listVars, lifeVars, pubVars>>

\* create_user and update_user: await session.refresh(user) reloads the row;
\* when the row is gone it raises InvalidRequestError and the request ends
\* in 500.
Refresh(s) ==
    /\ req[s].pc = "refresh"
    /\ LET row == SelectUser(store, req[s].user.id)
       IN  req' = IF row = NoUser
                  THEN [req EXCEPT ![s].status = 500, ![s].pc = "respond"]
                  ELSE [req EXCEPT ![s].user = row, ![s].pc = "publish"]
    /\ UNCHANGED <<store, nextId, now, reqCount, ctx, uuidCount, pubConnection,
                   pubChannel, connCount, chanCount, exchange, deleted, mwVars, cVars,
                   listVars, lifeVars, pubVars>>

-----------------------------------------------------------------------------
(* producer.publish_user_event, called by the mutating handlers *)

\* connection.is_closed
ConnectionIsClosed(connection) == <<"connection", connection>> \in pubClosed

\* channel.is_closed: a channel is closed with its connection
ChannelIsClosed(channel) ==
    \/ <<"channel", channel.id>> \in pubClosed
    \/ ConnectionIsClosed(channel.connection)

\* a check that only looks for None
NeedsConnectionIfNone(cached) == cached = 0

\* get_connection's test: _connection is None or _connection.is_closed
NeedsConnection(cached) == cached = 0 \/ ConnectionIsClosed(cached)

\* get_channel's test: _channel is None or _channel.is_closed
NeedsChannel(cached) == cached = NoChannel \/ ChannelIsClosed(cached)

\* get_channel after get_connection returned `connection`: a cached channel
\* that is open is returned as it is, otherwise connection.channel() is awaited
AfterConnection(r, connection) ==
    IF NeedsChannel(pubChannel)
    THEN [r EXCEPT !.connection = connection, !.pc = "opening"]
    ELSE [r EXCEPT !.connection = connection, !.channel = pubChannel,
                   !.pc = "declaring"]

\* an error that leaves publish_user_event: the handler raises and the
\* request ends in 500
PublishErrorRaised(r, stage) ==
    [r EXCEPT !.pubError = stage, !.status = 500, !.pc = "respond"]

\* an except clause that calls publish_user_event again
PublishErrorRetried(r, stage) ==
    [r EXCEPT !.pubError = stage, !.pc = "publish"]

\* the except clause of publish_user_event: the error is printed and not
\* raised, so the handler goes on to return its response
PublishError(r, stage) ==
    [r EXCEPT !.pubError = stage, !.status = SuccessStatus(r.op),
              !.pc = "respond"]

\* publish_user_event starts: get_channel calls get_connection, which awaits
\* connect_robust only when no open connection is cached
PublishBegin(s) ==
    /\ req[s].pc = "publish"
    /\ req' = [req EXCEPT ![s] =
                 IF NeedsConnection(pubConnection) THEN [req[s] EXCEPT !.pc = "connecting"]
                 ELSE AfterConnection(req[s], pubConnection)]
    /\ UNCHANGED <<store, nextId, now, reqCount, ctx, uuidCount, pubConnection,
                   pubChannel, connCount, chanCount, exchange, deleted, mwVars,
                   cVars, listVars, lifeVars, pubVars>>

\* connect_robust returns (the connection is stored in _connection) or raises
Connected(s, ok) ==
    /\ req[s].pc = "connecting"
    /\ IF ok
       THEN /\ connCount' = connCount + 1
            /\ pubConnection' = connCount + 1
            /\ req' = [req EXCEPT ![s] = AfterConnection(req[s], connCount + 1)]
       ELSE /\ req' = [req EXCEPT ![s] = PublishError(req[s], "connect")]
            /\ UNCHANGED <<connCount, pubConnection>>
    /\ UNCHANGED <<store, nextId, now, reqCount, ctx, uuidCount, pubChannel,
                   chanCount, exchange, deleted, mwVars, cVars,
                   listVars, lifeVars, pubVars>>

\* connection.channel() returns (the channel is stored in _channel and
\* returned) or raises; it raises on a closed connection
ChannelOpened(s, ok) ==
    /\ req[s].pc = "opening"
    /\ ok => ~ConnectionIsClosed(req[s].connection)
    /\ IF ok
       THEN /\ chanCount' = chanCount + 1
            /\ pubChannel' = [id |-> chanCount + 1, connection |-> req[s].connection]
            /\ req' = [req EXCEPT ![s].channel = pubChannel',
                                  ![s].pc = "declaring"]
       ELSE /\ req' = [req EXCEPT ![s] = PublishError(req[s], "channel")]
            /\ UNCHANGED <<chanCount, pubChannel>>
    /\ UNCHANGED <<store, nextId, now, reqCount, ctx, uuidCount, pubConnection,
                   connCount, exchange, deleted, mwVars, cVars,
                   listVars, lifeVars, pubVars>>

\* the envelope: trace_id is read from the logging context of the caller
Envelope(event_type, data, c) ==
    [event_type |-> event_type, data |-> data,
     trace_id |-> ContextGet(c, "trace_id", UnknownStr)]

\* channel.declare_exchange returns or raises (it raises on a closed
\* channel); on return the message is built
Declared(s, ok) ==
    /\ req[s].pc = "declaring"
    /\ ok => ~ChannelIsClosed(req[s].channel)
    /\ req' = [req EXCEPT ![s] =
                 IF ok
                 THEN [req[s] EXCEPT
                         !.body = JsonDumps(Envelope(EventType(req[s].op),
                                                     [user_id |-> req[s].user.id],
                                                     ctx[TaskContext(s)])),
                         !.pc = "publishing"]
                 ELSE PublishError(req[s], "declare")]
    /\ UNCHANGED <<store, nextId, now, reqCount, ctx, uuidCount, pubConnection,
                   pubChannel, connCount, chanCount, exchange, deleted, mwVars,
                   cVars, listVars, lifeVars, pubVars>>

\* exchange.publish(message, routing_key=event_type) returns or raises; then
\* the handler returns its response object.  `by`, `committed` and
\* `responded` record who published and in which state.
Published(s, ok) ==
    /\ req[s].pc = "publishing"
    /\ ok => ~ChannelIsClosed(req[s].channel)
    /\ IF ok
       THEN /\ exchange' = Append(exchange,
                                  [routing_key |-> EventType(req[s].op),
                                   body |-> req[s].body,
                                   by |-> req[s].no,
                                   committed |-> req[s].committed,
                                   responded |-> req[s].response # NoMessage])
            /\ req' = [req EXCEPT ![s].status = SuccessStatus(req[s].op),
                                  ![s].pc = "respond"]
       ELSE /\ req' = [req EXCEPT ![s] = PublishError(req[s], "publish")]
            /\ UNCHANGED exchange
    /\ UNCHANGED <<store, nextId, now, reqCount, ctx, uuidCount, pubConnection,
                   pubChannel, connCount, chanCount, deleted, mwVars, cVars,
                   listVars, lifeVars, pubVars>>

\* the handler's locals, gone once it has returned or raised
Returned(r) ==
    [r EXCEPT !.user = NoUser, !.dirty = {}, !.tx = 0, !.connection = 0,
              !.channel = NoChannel, !.body = NoBody]

\* the response leaves through the middleware's logging_send
Respond(s) ==
    /\ req[s].pc = "respond"
    /\ req' = [req EXCEPT
                 ![s] = [Returned(req[s]) EXCEPT
                           !.response =
                               LoggingSend(StartMessage(req[s].status,
                                               <<<<"content-type", JsonType>>>>),
                                           req[s].trace_id),
                           !.pc = "done"]]
    /\ UNCHANGED <<store, nextId, now, reqCount, ctx, uuidCount, pubConnection,
                   pubChannel, connCount, chanCount, exchange, deleted, mwVars,
                   cVars, listVars, lifeVars, pubVars>>

\* a row left in the table by an earlier run of the service
StoredUser ==
    [id |-> 1, name |-> "n0", surname |-> "s0", password |-> "p0",
     created_at |-> 0, updated_at |-> 0]

\* The table outlives the process: at start-up it is empty or holds a row,
\* and the id sequence stands after the ids given out.
\* the id sequence stands after the ids given out
SequenceAfter(table) ==
    IF table = {} THEN 1
    ELSE (CHOOSE i \in {u.id : u \in table} : \A u \in table : u.id <= i) + 1

\* the service starts on the table `table`
ApiStart(table) ==
    /\ store = table
    /\ nextId = SequenceAfter(table)
    /\ now = 0
    /\ req = [s \in Slots |-> IdleReq]
    /\ reqCount = 0
    /\ ctx = [s \in Slots |-> {}]
    /\ uuidCount = 0
    /\ pubConnection = 0
    /\ pubChannel = NoChannel
    /\ connCount = 0
    /\ chanCount = 0
    /\ exchange = <<>>
    /\ deleted = {}
    /\ listed = {}
    /\ pubClosed = {}

ApiInit == \E table \in {{}, {StoredUser}} : ApiStart(table)

\* the steps of get_users
ListSteps ==
    \/ \E s \in Slots : GetUsers(s)
    \/ \E s \in Slots : GetUsersPage(s)

\* the steps of create_user and update_user up to the publish
ChangeSteps ==
    \/ \E s \in Slots : CreateCommit(s)
    \/ \E s \in Slots : SelectForChange(s)
    \/ \E s \in Slots : UpdateCommit(s)
    \/ \E s \in Slots : Refresh(s)

\* the steps of publish_user_event, then the response
PublishSteps ==
    \/ \E s \in Slots : PublishBegin(s)
    \/ \E s \in Slots, ok \in BOOLEAN : Connected(s, ok)
    \/ \E s \in Slots, ok \in BOOLEAN : ChannelOpened(s, ok)
    \/ \E s \in Slots, ok \in BOOLEAN : Declared(s, ok)
    \/ \E s \in Slots, ok \in BOOLEAN : Published(s, ok)
    \/ \E s \in Slots : Respond(s)

\* the steps of the requests in flight
ApiSteps ==
    \/ ListSteps
    \/ \E s \in Slots : GetUser(s)
    \/ ChangeSteps
    \/ \E s \in Slots : DeleteCommit(s)
    \/ PublishSteps

ApiNext ==
    \/ \E s \in Slots, call \in Calls, hs \in ApiHeaderChoices : Accept(s, call, hs)
    \/ ApiSteps

-----------------------------------------------------------------------------
(* Request bodies with empty and missing fields (SpecValidation) *)

\* POST /users bodies: one field empty, or name missing
EmptyCreates ==
    {[CreateData EXCEPT ![f] = ""] : f \in TextFields}
    \cup {[CreateData EXCEPT !.name = None]}

\* PUT /users/1 bodies: one field, and it is empty
EmptyPatches == {[NoPatch EXCEPT ![f] = ""] : f \in TextFields}

ValidationCalls ==
    {Call("create", 0, data) : data \in EmptyCreates}
    \cup {Call("update", uid, data) : uid \in TargetIds, data \in EmptyPatches}

ValidationNext ==
    \/ \E s \in Slots, call \in ValidationCalls : Accept(s, call, <<>>)
    \/ ChangeSteps
    \/ PublishSteps

-----------------------------------------------------------------------------
(* consumer.user_event_handler (SpecConsumer) *)

\* dict.get(key, default)
DictGet(d, key, default) == IF key \in DOMAIN d THEN d[key] ELSE default

IsDict(v) == "nondict" \notin DOMAIN v

KnownEvents == {"user.created", "user.updated", "user.deleted"}

\* str(message.message_id or "unknown")
MessageIdStr(message_id) == IF message_id = NoneSeq THEN UnknownStr ELSE message_id

\* The try block of user_event_handler, statement by statement.  The result
\* is the logging context it leaves, the line it logs, and whether one of its
\* statements raised (the except clause then logs the error).
HandlerBody(body, message_id, c) ==
    IF body.kind # "object"
    THEN \* json.loads / .decode() raised, or message_data.get does not exist
         [ctx |-> c, line |-> [level |-> "error", event_type |-> None,
                                user_id |-> 0, trace_id |-> ContextGet(c, "trace_id", NoneSeq)],
          raised |-> TRUE]
    ELSE LET message_data == body.value
             event_type == DictGet(message_data, "event_type", None)
             data == DictGet(message_data, "data", <<>>)
             trace_id == DictGet(message_data, "trace_id", MessageIdStr(message_id))
             bound == BindContextvars(ClearContextvars(c), "trace_id", trace_id)
         IN  IF event_type \in KnownEvents /\ ~IsDict(data)
             THEN \* data.get raised
                  [ctx |-> bound, line |-> [level |-> "error", event_type |-> event_type,
                                            user_id |-> 0, trace_id |-> trace_id],
                   raised |-> TRUE]
             ELSE [ctx |-> bound,
                   line |-> [level |-> "info", event_type |-> event_type,
                             user_id |-> IF event_type \in KnownEvents
                                         THEN DictGet(data, "user_id", 0) ELSE 0,
                             trace_id |-> trace_id],
                   raised |-> FALSE]

\* What leaves the try statement: the except clause catches every Exception
\* and does not raise, so nothing propagates into message.process().
Propagates(raised) == FALSE

\* an exit that hands the message back to the queue
ProcessExitRequeue(propagated) == "ready"

\* message.process().__aexit__: ack when the block ended without an exception,
\* reject (without requeue) when one propagated out of it
ProcessExit(propagated) == IF propagated THEN "rejected" ELSE "acked"

\* ---- inputs of SpecConsumer ----
EventBody(event_type, data) ==
    JsonDumps([event_type |-> event_type, data |-> data, trace_id |-> TokenBytes])

BodyChoices ==
    {EventBody(e, [user_id |-> 7]) : e \in KnownEvents \cup {"user.renamed"}}
    \cup {EventBody("user.created", NotADict),
          EventBody("user.renamed", NotADict),
          JsonDumps([event_type |-> "user.deleted", data |-> [user_id |-> 7]]),
          [kind |-> "array", value |-> NotADict],
          [kind |-> "text", value |-> NotADict],
          [kind |-> "bytes", value |-> NotADict]}

MessageIdChoices == {NoneSeq, <<109, 49>>}

\* a message is routed into user_events_queue
Enqueue(body, message_id) ==
    /\ cCount < MaxDeliveries
    /\ queue' = Append(queue, [body |-> body, message_id |-> message_id,
                               state |-> "ready", raised |-> FALSE])
    /\ cCount' = cCount + 1
    /\ UNCHANGED <<cLog, cCtx, apiVars, mwVars, listVars, lifeVars, pubVars>>

\* the broker delivers message i and user_event_handler runs its try
\* statement; the message is now unacknowledged
Handle(i) ==
    /\ queue[i].state = "ready"
    /\ LET out == HandlerBody(queue[i].body, queue[i].message_id, cCtx)
       IN  /\ cCtx' = out.ctx
           /\ cLog' = Append(cLog, out.line)
           /\ queue' = [queue EXCEPT ![i].state =
                                        IF Propagates(out.raised) THEN "raising"
                                        ELSE "handled",
                                     ![i].raised = out.raised]
    /\ UNCHANGED <<cCount, apiVars, mwVars, listVars, lifeVars, pubVars>>

\* the handler leaves "async with message.process()"
LeaveProcess(i) ==
    /\ queue[i].state \in {"handled", "raising"}
    /\ queue' = [queue EXCEPT ![i].state = ProcessExit(queue[i].state = "raising")]
    /\ UNCHANGED <<cLog, cCtx, cCount, apiVars, mwVars, listVars, lifeVars, pubVars>>

CInit ==
    /\ queue = <<>>
    /\ cLog = <<>>
    /\ cCtx = {}
    /\ cCount = 0

CNext ==
    \/ \E body \in BodyChoices, message_id \in MessageIdChoices :
          Enqueue(body, message_id)
    \/ \E i \in DOMAIN queue : Handle(i)
    \/ \E i \in DOMAIN queue : LeaveProcess(i)

-----------------------------------------------------------------------------
(* get_users over tables of several rows (SpecList): one client reading pages, *)
(* no request that changes the table                                           *)

\* ids of the rows a table may hold: ids need not be contiguous
ListIds == {1, 2, 4}

ListUser(id) == [StoredUser EXCEPT !.id = id]

ListStores == {{ListUser(id) : id \in ids} : ids \in SUBSET ListIds}

ListPages == 1 .. MaxPage

ListPerPages == 1 .. MaxPerPage

ListAccept(s, call) ==
    /\ reqCount < MaxListRequests
    /\ Admit(s, call, <<>>)

ListInit == \E table \in ListStores : ApiStart(table)

ListNext ==
    \/ \E s \in Slots, page \in ListPages, per_page \in ListPerPages :
          ListAccept(s, ListCall(page, per_page))
    \/ ListSteps
    \/ \E s \in Slots : Respond(s)

-----------------------------------------------------------------------------
(* consumer.start_consumer and consumer.stop_consumer (SpecLifecycle) *)

\* an object of kind "connection" or "channel"
Obj(kind, id) == <<kind, id>>

\* "x is None or x.is_closed": the cached object cannot be used
Unusable(kind, ref) == ref = 0 \/ Obj(kind, ref) \notin lcOpen

\* a guard that looks at the reference only
NeedsCloseIfSet(kind, ref) == ref # 0

\* "if x and not x.is_closed": stop_consumer closes x
NeedsClose(kind, ref) == ref # 0 /\ Obj(kind, ref) \in lcOpen

\* bindings that leave out user.deleted
RoutingKeysWithoutDeleted == <<"user.created", "user.updated", "user.updated">>

\* the names start_consumer binds the queue to, in order
RoutingKeys == <<"user.created", "user.updated", "user.deleted">>

\* start_consumer's except clause: the error is logged and raised again
StartFailed ==
    /\ lcLog' = Append(lcLog, "start_raised")
    /\ lcPc' = "idle"

\* get_channel once get_connection has returned: a usable cached channel is
\* returned as it is, otherwise connection.channel() is awaited
StartAfterConnection(channel) ==
    IF Unusable("channel", channel) THEN "opening" ELSE "declaring"

\* start_consumer is called, by the lifespan at start-up or again after a
\* start that failed or a stop: get_channel calls get_connection, which
\* awaits connect_robust unless a usable connection is cached
StartBegin ==
    /\ lcPc = "idle" /\ lcCount < MaxLifecycleCalls
    /\ lcTask = "none"
    /\ lcCount' = lcCount + 1
    /\ lcPc' = IF Unusable("connection", lcConnection) THEN "connecting"
               ELSE StartAfterConnection(lcChannel)
    /\ UNCHANGED <<lcConnection, lcChannel, lcTask, lcOpen, lcBroker, lcLog,
                   apiVars, mwVars, cVars, listVars, pubVars>>

\* connect_robust returns the connection, kept in _connection, or raises
StartConnected(ok) ==
    /\ lcPc = "connecting"
    /\ IF ok
       THEN /\ lcConnection' = lcCount
            /\ lcOpen' = lcOpen \cup {Obj("connection", lcCount)}
            /\ lcPc' = StartAfterConnection(lcChannel)
            /\ lcLog' = lcLog
       ELSE /\ StartFailed
            /\ UNCHANGED <<lcConnection, lcOpen>>
    /\ UNCHANGED <<lcChannel, lcTask, lcBroker, lcCount,
                   apiVars, mwVars, cVars, listVars, pubVars>>

\* connection.channel() returns the channel, kept in _channel, or raises
StartChannelOpened(ok) ==
    /\ lcPc = "opening"
    /\ IF ok
       THEN /\ lcChannel' = lcCount
            /\ lcOpen' = lcOpen \cup {Obj("channel", lcCount)}
            /\ lcPc' = "declaring"
            /\ lcLog' = lcLog
       ELSE /\ StartFailed
            /\ UNCHANGED <<lcChannel, lcOpen>>
    /\ UNCHANGED <<lcConnection, lcTask, lcBroker, lcCount,
                   apiVars, mwVars, cVars, listVars, pubVars>>

\* channel.declare_exchange("user_events", TOPIC, durable=True)
StartExchangeDeclared(ok) ==
    /\ lcPc = "declaring"
    /\ IF ok
       THEN /\ lcBroker' = lcBroker \cup {<<"exchange", "user_events">>}
            /\ lcPc' = "queueing"
            /\ lcLog' = lcLog
       ELSE /\ StartFailed
            /\ UNCHANGED lcBroker
    /\ UNCHANGED <<lcConnection, lcChannel, lcTask, lcOpen, lcCount,
                   apiVars, mwVars, cVars, listVars, pubVars>>

\* channel.declare_queue("user_events_queue", durable=True)
StartQueueDeclared(ok) ==
    /\ lcPc = "queueing"
    /\ IF ok
       THEN /\ lcBroker' = lcBroker \cup {<<"queue", "user_events_queue">>}
            /\ lcPc' = "binding1"
            /\ lcLog' = lcLog
       ELSE /\ StartFailed
            /\ UNCHANGED lcBroker
    /\ UNCHANGED <<lcConnection, lcChannel, lcTask, lcOpen, lcCount,
                   apiVars, mwVars, cVars, listVars, pubVars>>

BindingPcs == <<"binding1", "binding2", "binding3">>

\* queue.bind(exchange, key) for the k-th key; after the third one the
\* consumer task is created and "RabbitMQ consumer started" is logged
StartBound(k, ok) ==
    /\ lcPc = BindingPcs[k]
    /\ IF ok
       THEN /\ lcBroker' = lcBroker \cup {<<"binding", RoutingKeys[k]>>}
            /\ IF k < Len(RoutingKeys)
               THEN /\ lcPc' = BindingPcs[k + 1]
                    /\ UNCHANGED <<lcTask, lcLog>>
               ELSE /\ lcTask' = "pending"
                    /\ lcLog' = Append(lcLog, "started")
                    /\ lcPc' = "idle"
       ELSE /\ StartFailed
            /\ UNCHANGED <<lcBroker, lcTask>>
    /\ UNCHANGED <<lcConnection, lcChannel, lcOpen, lcCount,
                   apiVars, mwVars, cVars, listVars, pubVars>>

\* the consumer task runs queue.consume(user_event_handler, no_ack=False):
\* the consumer is registered on the channel, or consume raises
ConsumeSettled(ok) ==
    /\ lcTask = "pending"
    /\ IF ok /\ ~Unusable("channel", lcChannel)
       THEN /\ lcTask' = "done"
            /\ lcBroker' = lcBroker \cup {<<"consumer", "user_events_queue">>}
       ELSE /\ lcTask' = "failed"
            /\ UNCHANGED lcBroker
    /\ UNCHANGED <<lcPc, lcConnection, lcChannel, lcOpen, lcLog, lcCount,
                   apiVars, mwVars, cVars, listVars, pubVars>>

\* the broker's view once connections or channels are closed: the consumers
\* of a closed channel are gone, the durable exchange, queue and bindings stay
BrokerAfterClose(broker) == {b \in broker : b[1] # "consumer"}

\* stop_consumer after its channel step: close the connection or finish
StopAfterChannel(log) ==
    IF NeedsClose("connection", lcConnection)
    THEN lcPc' = "closing_connection" /\ lcLog' = log
    ELSE lcPc' = "idle" /\ lcLog' = Append(log, "stopped")

\* a stop_consumer that goes from the task straight to the connection
StopAfterTaskSkippingChannel(log) == StopAfterChannel(log)

\* stop_consumer after its task step: close the channel or go on
StopAfterTask(log) ==
    IF NeedsClose("channel", lcChannel)
    THEN lcPc' = "closing_channel" /\ lcLog' = log
    ELSE StopAfterChannel(log)

\* stop_consumer is called: a task is cancelled and awaited, otherwise the
\* function runs on to the first close it awaits, or to its end
StopBegin ==
    /\ lcPc = "idle" /\ lcCount < MaxLifecycleCalls
    /\ lcCount' = lcCount + 1
    /\ IF lcTask # "none"
       THEN /\ lcTask' = IF lcTask = "pending" THEN "cancelled" ELSE lcTask
            /\ lcLog' = Append(lcLog, "cancel")
            /\ lcPc' = "awaiting_task"
       ELSE /\ StopAfterTask(lcLog)
            /\ UNCHANGED lcTask
    /\ UNCHANGED <<lcConnection, lcChannel, lcOpen, lcBroker,
                   apiVars, mwVars, cVars, listVars, pubVars>>

\* "await _consumer_task": CancelledError is caught, a result is dropped,
\* the exception of a task that failed leaves stop_consumer
StopTaskAwaited ==
    /\ lcPc = "awaiting_task"
    /\ IF lcTask = "failed"
       THEN /\ lcLog' = Append(lcLog, "stop_raised")
            /\ lcPc' = "idle"
            /\ UNCHANGED lcTask
       ELSE /\ lcTask' = "none"
            /\ StopAfterTask(lcLog)
    /\ UNCHANGED <<lcConnection, lcChannel, lcOpen, lcBroker, lcCount,
                   apiVars, mwVars, cVars, listVars, pubVars>>

\* what an awaited close() can do: return, or raise with the object closed
\* or still open
CloseOutcomes == {"closed", "raised_closed", "raised_open"}

\* "await _channel.close()" then "_channel = None"
StopChannelClosed(outcome) ==
    /\ lcPc = "closing_channel"
    /\ IF outcome = "raised_open"
       THEN UNCHANGED <<lcOpen, lcBroker>>
       ELSE /\ lcOpen' = lcOpen \ {Obj("channel", lcChannel)}
            /\ lcBroker' = BrokerAfterClose(lcBroker)
    /\ IF outcome = "closed"
       THEN /\ lcChannel' = 0
            /\ StopAfterChannel(Append(lcLog, "close_channel"))
       ELSE /\ lcLog' = lcLog \o <<"close_channel", "stop_raised">>
            /\ lcPc' = "idle"
            /\ UNCHANGED lcChannel
    /\ UNCHANGED <<lcConnection, lcTask, lcCount,
                   apiVars, mwVars, cVars, listVars, pubVars>>

\* "await _connection.close()" then "_connection = None", then the log line
StopConnectionClosed(outcome) ==
    /\ lcPc = "closing_connection"
    /\ IF outcome = "raised_open"
       THEN UNCHANGED <<lcOpen, lcBroker>>
       ELSE /\ lcOpen' = {}
            /\ lcBroker' = BrokerAfterClose(lcBroker)
    /\ IF outcome = "closed"
       THEN /\ lcConnection' = 0
            /\ lcLog' = lcLog \o <<"close_connection", "stopped">>
       ELSE /\ lcLog' = lcLog \o <<"close_connection", "stop_raised">>
            /\ UNCHANGED lcConnection
    /\ lcPc' = "idle"
    /\ UNCHANGED <<lcChannel, lcTask, lcCount,
                   apiVars, mwVars, cVars, listVars, pubVars>>

LifeInit ==
    /\ lcPc = "idle"
    /\ lcConnection = 0
    /\ lcChannel = 0
    /\ lcTask = "none"
    /\ lcOpen = {}
    /\ lcBroker = {}
    /\ lcLog = <<>>
    /\ lcCount = 0

LifeNext ==
    \/ StartBegin
    \/ \E ok \in BOOLEAN : StartConnected(ok)
    \/ \E ok \in BOOLEAN : StartChannelOpened(ok)
    \/ \E ok \in BOOLEAN : StartExchangeDeclared(ok)
    \/ \E ok \in BOOLEAN : StartQueueDeclared(ok)
    \/ \E k \in DOMAIN RoutingKeys, ok \in BOOLEAN : StartBound(k, ok)
    \/ \E ok \in BOOLEAN : ConsumeSettled(ok)
    \/ StopBegin
    \/ StopTaskAwaited
    \/ \E outcome \in CloseOutcomes : StopChannelClosed(outcome)
    \/ \E outcome \in CloseOutcomes : StopConnectionClosed(outcome)

-----------------------------------------------------------------------------
(* Events on their way from the exchange to the handler (SpecDelivery) *)

\* the topic exchange routes a message to user_events_queue when the queue
\* is bound under the message's routing key; otherwise the message is dropped
Routed(routing_key, broker) ==
    IF <<"queue", "user_events_queue">> \in broker
          /\ <<"binding", routing_key>> \in broker
    THEN "ready" ELSE "unroutable"

\* publish_user_event(event_type, {"user_id": 7}) reaches the exchange:
\* exchange.publish(message, routing_key=event_type)
PublishEvent(event_type) ==
    /\ cCount < MaxDeliveries
    /\ queue' = Append(queue, [body |-> EventBody(event_type, [user_id |-> 7]),
                               message_id |-> NoneSeq,
                               state |-> Routed(event_type, lcBroker),
                               raised |-> FALSE])
    /\ cCount' = cCount + 1
    /\ UNCHANGED <<cLog, cCtx, apiVars, mwVars, listVars, lifeVars, pubVars>>

\* the broker hands a ready message to the consumer queue.consume registered
Deliver(i) ==
    /\ \E b \in lcBroker : b[1] = "consumer"
    /\ Handle(i)

DeliveryNext ==
    \/ LifeNext
    \/ \E event_type \in KnownEvents : PublishEvent(event_type)
    \/ \E i \in DOMAIN queue : Deliver(i)
    \/ \E i \in DOMAIN queue : LeaveProcess(i)

\* the consumer task is scheduled, and the broker delivers to a consumer
DeliveryFairness ==
    /\ WF_vars(\E ok \in BOOLEAN : ConsumeSettled(ok))
    /\ WF_vars(\E i \in DOMAIN queue : Deliver(i))

-----------------------------------------------------------------------------
(* The publisher under sequential use, with connections and channels that *)
(* close (SpecPublisher)                                                  *)

PublisherCalls ==
    {Call("create", 0, CreateData),
     Call("update", 1, [name |-> "n1", surname |-> None, password |-> None])}

\* sequential use: a request is taken up when no other is in flight
PublisherAccept(s, call) ==
    /\ reqCount < MaxPublishes
    /\ \A t \in Slots : req[t].pc \in {"idle", "done"}
    /\ Admit(s, call, <<>>)

\* the cached connection closes: _connection.is_closed becomes true
ConnectionClosed ==
    /\ pubConnection # 0
    /\ ~ConnectionIsClosed(pubConnection)
    /\ Cardinality(pubClosed) < MaxCloses
    /\ pubClosed' = pubClosed \cup {<<"connection", pubConnection>>}
    /\ UNCHANGED <<apiVars, mwVars, cVars, listVars, lifeVars>>

\* the cached channel closes: _channel.is_closed becomes true
ChannelClosed ==
    /\ pubChannel # NoChannel
    /\ ~ChannelIsClosed(pubChannel)
    /\ Cardinality(pubClosed) < MaxCloses
    /\ pubClosed' = pubClosed \cup {<<"channel", pubChannel.id>>}
    /\ UNCHANGED <<apiVars, mwVars, cVars, listVars, lifeVars>>

PublisherNext ==
    \/ \E s \in Slots, call \in PublisherCalls : PublisherAccept(s, call)
    \/ ChangeSteps
    \/ PublishSteps
    \/ ConnectionClosed
    \/ ChannelClosed

-----------------------------------------------------------------------------
Init == ApiInit /\ MwInit /\ CInit /\ LifeInit

Next == ApiNext

Spec == Init /\ [][Next]_vars

SpecMw == Init /\ [][MwNext]_vars

SpecConsumer == Init /\ [][CNext]_vars

SpecValidation == Init /\ [][ValidationNext]_vars

ListStart == ListInit /\ MwInit /\ CInit /\ LifeInit

SpecLifecycle == Init /\ [][LifeNext]_vars

SpecDelivery == Init /\ [][DeliveryNext]_vars /\ DeliveryFairness

SpecList == ListStart /\ [][ListNext]_vars

SpecPublisher == Init /\ [][PublisherNext]_vars

-----------------------------------------------------------------------------
(* Properties *)

UserIds(table) == {u.id : u \in table}

\* the values of the headers called `name`, in order
RECURSIVE HeaderValues(_, _)
HeaderValues(hs, name) ==
    IF hs = <<>> THEN <<>>
    ELSE (IF Head(hs)[1] = name THEN <<Head(hs)[2]>> ELSE <<>>)
         \o HeaderValues(Tail(hs), name)

IsAscii(b) == \A i \in 1 .. Len(b) : b[i] < 128

Mutations == {"create", "update", "delete"}

\* the HTTP response of the middleware has started
ResponseStarted == mwScope.type = "http" /\ Len(mwSent) >= 1

\* C1: a publish failure never affects the caller.  Whenever connecting,
\* opening the channel, declaring the exchange or publishing failed for a
\* request, publish_user_event has returned to the handler, the request ends
\* with its normal status (201 for create, 200 for update and delete), and the
\* step at which the failure is swallowed leaves the table as the commit
\* left it.
C1_PublishFailureInvisible ==
    /\ [](\A s \in Slots :
            req[s].pubError # "none" =>
                /\ req[s].op \in Mutations
                /\ req[s].committed # 0
                /\ req[s].pc \in {"respond", "done"}
                /\ req[s].status = SuccessStatus(req[s].op)
                /\ req[s].pc = "done" =>
                       req[s].response.status = SuccessStatus(req[s].op))
    /\ [][\A s \in Slots :
            (req[s].pubError = "none" /\ req'[s].pubError # "none") =>
                store' = store]_vars

C1_Witness ==
    \E s, t \in Slots :
        /\ req[s].pc = "done" /\ req[s].op = "create"
        /\ req[s].pubError = "connect"
        /\ req[s].response.status = 201
        /\ req[s].committed \in UserIds(store)
        /\ req[t].pc = "done" /\ req[t].op = "update"
        /\ req[t].pubError = "publish"
        /\ req[t].response.status = 200

\* C2: whenever decoding the body or dispatching on event_type raises in
\* user_event_handler, the message is not acknowledged.
C2_RaisedNotAcknowledged ==
    \A i \in DOMAIN queue : queue[i].raised => queue[i].state # "acked"

\* C3: the trace_id of every published event is the correlation id of the
\* request that performed the mutation, the one returned in that request's
\* X-Trace-Id header, whatever other requests run at the same time.
C3_EventTraceIsRequestTrace ==
    \A i \in DOMAIN exchange : \A s \in Slots :
        exchange[i].by = req[s].no =>
            /\ exchange[i].body.value.trace_id = req[s].trace_id
            /\ req[s].pc = "done" =>
                   HeaderValues(req[s].response.headers, "X-Trace-Id")
                       = <<StrEncode(exchange[i].body.value.trace_id)>>

C3_Witness ==
    /\ Len(exchange) = 2
    /\ req[1].pc = "done" /\ req[2].pc = "done"
    /\ req[1].trace_id # req[2].trace_id
    /\ exchange[1].by = req[2].no /\ exchange[2].by = req[1].no
    /\ exchange[1].body.value.trace_id = req[2].trace_id
    /\ exchange[2].body.value.trace_id = req[1].trace_id

C5_InvalidRequestIdReplaced ==
    ResponseStarted =>
        LET sent == HeaderValues(mwScope.headers, "x-request-id")
            got == HeaderValues(mwSent[1].headers, "X-Trace-Id")
        IN  (Len(sent) = 1 /\ ~(Utf8Valid(sent[1]) /\ IsUuidText(BytesDecode(sent[1])))) =>
                /\ Len(got) = 1
                /\ Utf8Valid(got[1]) /\ IsUuidText(BytesDecode(got[1]))
                /\ got[1] # sent[1]

\* C6: every response that passes through the middleware, whatever its
\* status, carries the headers the handler set, unchanged and in place,
\* followed by one X-Trace-Id header whose value is the request's correlation
\* id; the messages after the start pass unchanged.
C6_TraceHeaderAppended ==
    ResponseStarted =>
        LET app == mwAppMsg[1]
            out == mwSent[1]
        IN  /\ out.type = app.type /\ out.status = app.status
            /\ Len(out.headers) = Len(app.headers) + 1
            /\ \A i \in 1 .. Len(app.headers) : out.headers[i] = app.headers[i]
            /\ out.headers[Len(out.headers)] = <<"X-Trace-Id", StrEncode(mwTraceId)>>
            /\ mwTraceId = ContextGet(mwCtx, "trace_id", NoneSeq)
            /\ \A i \in 2 .. Len(mwSent) : mwSent[i] = mwAppMsg[i]

C6_Witness ==
    /\ ResponseStarted
    /\ mwPc = "done"
    /\ mwAppMsg[1].status = 404
    /\ Len(mwAppMsg[1].headers) = 2
    /\ Len(mwSent[1].headers) = 3
    /\ HeaderValues(mwSent[1].headers, "X-Trace-Id") = <<TokenBytes>>

\* C7: an event is published only by a request whose mutation was committed,
\* after that commit and before the request's response is sent; its type is
\* the mutation's and its data carry the id of the affected row; a request
\* that ends in 404 publishes nothing.
C7_PublishAfterCommit ==
    /\ \A i \in DOMAIN exchange :
          LET m == exchange[i]
          IN  /\ m.committed # 0
              /\ ~m.responded
              /\ m.body.value.data.user_id = m.committed
              /\ m.routing_key \in KnownEvents
              /\ m.body.value.event_type = m.routing_key
              /\ \A s \in Slots :
                    m.by = req[s].no =>
                        /\ m.routing_key = EventType(req[s].op)
                        /\ req[s].committed = m.committed
                        /\ req[s].status # 404
    /\ \A s \in Slots :
          req[s].pc \in {"publish", "connecting", "opening", "declaring", "publishing"}
              => req[s].committed # 0 /\ req[s].response = NoMessage

C7_Witness ==
    \E s, t \in Slots :
        /\ req[s].pc = "done" /\ req[s].op = "delete" /\ req[s].status = 200
        /\ req[t].pc = "done" /\ req[t].op = "update" /\ req[t].status = 404
        /\ Len(exchange) = 1
        /\ exchange[1].by = req[s].no
        /\ exchange[1].routing_key = "user.deleted"
        /\ exchange[1].body.value.data.user_id = 1

\* C8: under any interleaving of concurrent update and delete requests on
\* the same existing id, every request ends in 200 or 404, never in a server
\* error.
C8_UpdateDeleteEndIn200Or404 ==
    \A s \in Slots :
        (req[s].pc = "done" /\ req[s].op \in {"update", "delete"}) =>
            req[s].status \in {200, 404}

\* C9: once the DELETE of an id is committed the id stays gone: it is never in
\* the table again, every get, update or delete of it accepted afterwards
\* ends in 404, and no list accepted afterwards returns it.
C9_DeletedStaysGone ==
    /\ deleted \cap UserIds(store) = {}
    /\ \A s \in Slots :
          req[s].pc \in {"respond", "done"} =>
              /\ (req[s].op \in {"get", "update", "delete"}
                     /\ req[s].uid \in req[s].deletedBefore)
                    => req[s].status = 404
              /\ req[s].op = "list" =>
                    \A i \in DOMAIN req[s].users :
                        req[s].users[i] \notin req[s].deletedBefore

C9_Witness ==
    \E s, t \in Slots :
        /\ s # t
        /\ req[s].pc = "done" /\ req[s].op = "delete" /\ req[s].uid = 1
        /\ req[s].status = 404 /\ 1 \in req[s].deletedBefore
        /\ req[t].pc = "done" /\ req[t].op = "delete" /\ req[t].status = 200

\* C10: the commit of an update changes only the fields present in the
\* patch: each of name, surname and password that is absent keeps the value
\* it had, the id and the creation timestamp are unchanged, and so is every
\* other row.
C10_UpdateFrame ==
    [][\A s \in Slots :
          (req[s].pc = "commit" /\ req[s].op = "update" /\ req'[s].pc = "refresh") =>
              LET before == SelectUser(store, req[s].uid)
                  after == SelectUser(store', req[s].uid)
              IN  /\ \A f \in TextFields :
                        req[s].data[f] = None => after[f] = before[f]
                  /\ after.id = before.id
                  /\ after.created_at = before.created_at
                  /\ UserIds(store') = UserIds(store)
                  /\ \A u \in store : u.id # req[s].uid => u \in store'
      ]_vars

C10_Witness ==
    \E s \in Slots :
        /\ req[s].pc = "refresh" /\ req[s].op = "update"
        /\ req[s].data.name = "n1"
        /\ Cardinality(store) = 2
        /\ LET u == SelectUser(store, 1)
           IN  /\ u.name = "n1" /\ u.surname = "s0" /\ u.password = "p0"
               /\ u.created_at = 0 /\ u.updated_at = 1

\* C11: every successful update of an existing user, whatever subset of
\* name, surname and password it supplies (the empty subset and values equal
\* to the stored ones included), leaves the user's updated_at strictly
\* greater than the one the handler loaded: the row that session.refresh
\* reads back is newer than the row the SELECT returned.
C11_UpdatedAtStrictlyIncreases ==
    [][\A s \in Slots :
          (req[s].op = "update" /\ req[s].pc = "refresh" /\ req'[s].pc = "publish") =>
              req'[s].user.updated_at > req[s].user.updated_at
      ]_vars

CeilDiv(n, k) == (n + k - 1) \div k

IsAscending(seq) == \A i, j \in DOMAIN seq : i < j => seq[i] < seq[j]

Range(seq) == {seq[i] : i \in DOMAIN seq}

\* the users of pages p .. last of size k, one after the other, as get_users
\* returned them
RECURSIVE Walk(_, _, _)
Walk(p, k, last) ==
    IF p > last THEN <<>>
    ELSE (CHOOSE r \in listed : r.page = p /\ r.per_page = k).users
         \o Walk(p + 1, k, last)

\* C12: on a table of N users that no request changes, the pages 1..ceil(N/k)
\* of size k return every user exactly once: each page is in ascending id
\* order, holds at most k users, starts at offset (page-1)*k of the ascending
\* order, and the pages read one after the other are the whole table in
\* ascending id order.
C12_PagesPartitionTable ==
    LET N == Cardinality(store)
        first(r) == (r.page - 1) * r.per_page
    IN  /\ \A r \in listed :
              /\ IsAscending(r.users)
              /\ Len(r.users) <= r.per_page
              /\ Range(r.users) \subseteq UserIds(store)
              /\ Len(r.users) = IF first(r) + r.per_page <= N THEN r.per_page
                                ELSE IF first(r) <= N THEN N - first(r)
                                ELSE 0
              /\ \A i \in DOMAIN r.users :
                    Cardinality({id \in UserIds(store) : id < r.users[i]})
                        = first(r) + i - 1
        /\ \A k \in ListPerPages :
              (\A p \in 1 .. CeilDiv(N, k) :
                    \E r \in listed : r.page = p /\ r.per_page = k)
                 => LET all == Walk(1, k, CeilDiv(N, k))
                    IN  /\ Len(all) = N
                        /\ IsAscending(all)
                        /\ Range(all) = UserIds(store)

C12_Witness ==
    /\ UserIds(store) = {1, 2, 4}
    /\ UserListResponse(<<1, 2>>, 3, 1, 2) \in listed
    /\ UserListResponse(<<4>>, 3, 2, 2) \in listed

\* C13: the total of every list response is the number of users in the
\* table, whatever page and per_page were asked for; a page that starts
\* beyond the last user is answered with 200, an empty users list and that
\* same total.
C13_TotalIndependentOfPage ==
    /\ \A r \in listed :
          /\ r.total = Cardinality(store)
          /\ (r.page - 1) * r.per_page >= Cardinality(store) => r.users = <<>>
    /\ \A s \in Slots :
          (req[s].op = "list" /\ req[s].pc \in {"respond", "done"}) =>
              /\ req[s].status = 200
              /\ UserListResponse(req[s].users, req[s].total, req[s].page,
                                  req[s].per_page) \in listed

C13_Witness ==
    /\ Cardinality(store) = 3
    /\ UserListResponse(<<>>, 3, 3, 2) \in listed
    /\ UserListResponse(<<1>>, 3, 1, 1) \in listed
    /\ \E s \in Slots : req[s].pc = "done" /\ req[s].page = 3 /\ req[s].status = 200

\* the handler of request s holds the user it is about to return with 201
ReturnsCreated(s) ==
    /\ req[s].op = "create"
    /\ req[s].pc \in {"publish", "connecting", "opening", "declaring",
                      "publishing", "respond"}
    /\ req[s].status \in {0, 201}

\* C14: every successful create returns a user whose id differs from the id
\* of every user created before it, deleted ones included, and whose
\* created_at and updated_at are equal.
C14_CreateReturnsFreshIdEqualStamps ==
    /\ [][\A s \in Slots :
             (req[s].op = "create" /\ req[s].pc = "handler"
                  /\ req'[s].pc = "refresh") =>
                 /\ req'[s].user.id \notin UserIds(store) \cup deleted
                 /\ req'[s].user.id \in UserIds(store')
         ]_vars
    /\ [](\A s \in Slots :
             ReturnsCreated(s) =>
                 req[s].user.created_at = req[s].user.updated_at)

\* C15: in every reachable table, after any creates, updates and deletes,
\* ids are unique, every row's created_at is at most its updated_at, and no
\* step changes the id or the created_at of a row: a row of the next table
\* is a row of this one under the same id, or the row just inserted under the
\* next id of the sequence.
C15_IdImmutableCreatedBeforeUpdated ==
    /\ [](/\ \A u \in store : u.created_at <= u.updated_at
          /\ \A u, v \in store : u.id = v.id => u = v
          /\ \A u \in store : u.id < nextId)
    /\ [][\A u \in store' :
             \/ \E v \in store : v.id = u.id /\ v.created_at = u.created_at
             \/ /\ u.id = nextId /\ nextId' = nextId + 1
                /\ u.id \notin UserIds(store) \cup deleted
         ]_vars

C15_Witness ==
    /\ \E u \in store :
          u.id = 1 /\ u.created_at = 1 /\ u.updated_at = 1 /\ u.name = "n1"
    /\ \E s \in Slots : req[s].op = "update" /\ req[s].pc = "done"
                           /\ req[s].status = 200

\* the messages in the exchange that request number `no` published
PublishedBy(no) == {i \in DOMAIN exchange : exchange[i].by = no}

\* C16: get, update and delete of an id that is not in the table answer 404
\* with a detail naming the id; the request changes no row and publishes no
\* event, neither at the SELECT that misses nor afterwards.
C16_AbsentIdIs404 ==
    /\ [][\A s \in Slots :
             (req[s].pc = "handler" /\ req[s].op \in {"get", "update", "delete"}
                  /\ req[s].uid \notin UserIds(store) /\ req'[s] # req[s]) =>
                 /\ req'[s].status = 404 /\ req'[s].pc = "respond"
                 /\ req'[s].detail.id = req[s].uid
                 /\ req'[s].detail.text = "User with id {} not found"
                 /\ store' = store /\ exchange' = exchange
         ]_vars
    /\ [][\A s \in Slots :
             (req[s].status = 404 /\ req'[s] # req[s]) =>
                 store' = store /\ exchange' = exchange
         ]_vars
    /\ [](\A s \in Slots :
             req[s].status = 404 =>
                 /\ req[s].detail.id = req[s].uid
                 /\ req[s].committed = 0 /\ req[s].pubError = "none"
                 /\ PublishedBy(req[s].no) = {})

C16_Witness ==
    /\ store = {} /\ exchange = <<>>
    /\ \E s, t \in Slots :
          /\ req[s].pc = "done" /\ req[s].op = "update" /\ req[s].status = 404
          /\ req[s].detail = NotFoundDetail(1)
          /\ req[t].pc = "done" /\ req[t].op = "delete" /\ req[t].status = 404
          /\ req[t].detail = NotFoundDetail(1)

\* a create whose name, surname or password is the empty string, or an
\* update whose name or surname is
HasEmptyField(r) ==
    \/ r.op = "create" /\ \E f \in TextFields : r.data[f] = ""
    \/ r.op = "update" /\ \E f \in {"name", "surname"} : r.data[f] = ""

\* C17: a create with an empty name, surname or password, and an update with
\* an empty name or surname, is answered with 400; it commits nothing: no row
\* is added, no row takes an empty value, and no event is published.
C17_EmptyFieldRejected ==
    /\ \A s \in Slots :
          (HasEmptyField(req[s]) /\ req[s].pc = "done") =>
              /\ req[s].status = 400
              /\ req[s].committed = 0
              /\ PublishedBy(req[s].no) = {}
    /\ \A u \in store : \A f \in {"name", "surname", "password"} : u[f] # ""

\* C18: a create, update or delete request publishes its event at most once.
\* The exchange never holds two messages of one request; a request that ends
\* with its success status and met no broker error has published exactly one;
\* a request whose publish failed at any stage has published none and goes
\* straight to its response, and after exchange.publish returned or raised
\* the handler only responds: there is no second attempt.
C18_AtMostOnePublish ==
    /\ [](/\ \A n \in 1 .. reqCount : Cardinality(PublishedBy(n)) <= 1
          /\ \A s \in Slots :
                /\ (req[s].pc = "done" /\ req[s].op \in Mutations
                       /\ req[s].status = SuccessStatus(req[s].op)
                       /\ req[s].pubError = "none")
                      => Cardinality(PublishedBy(req[s].no)) = 1
                /\ req[s].pubError # "none" =>
                      /\ PublishedBy(req[s].no) = {}
                      /\ req[s].pc \in {"respond", "done"})
    /\ [][\A s \in Slots :
             /\ req[s].pc = "publishing" =>
                   req'[s].pc \in {"publishing", "respond"}
             /\ req[s].pc = "respond" => req'[s].pc \in {"respond", "done"}
             /\ (req[s].pc = "done" /\ req'[s].no = req[s].no) =>
                   req'[s].pc = "done"
         ]_vars

C18_Witness ==
    \E s, t \in Slots :
        /\ req[s].pc = "done" /\ req[s].op = "create" /\ req[s].status = 201
        /\ req[s].pubError = "none"
        /\ Cardinality(PublishedBy(req[s].no)) = 1
        /\ req[t].pc = "done" /\ req[t].op = "delete" /\ req[t].status = 200
        /\ req[t].pubError = "publish"
        /\ PublishedBy(req[t].no) = {}
        /\ Len(exchange) = 1

\* the line user_event_handler logs for a body it handles without raising
EventLine(body) ==
    LET event_type == DictGet(body.value, "event_type", None)
    IN  [level |-> "info", event_type |-> event_type,
         user_id |-> IF event_type \in KnownEvents
                     THEN DictGet(DictGet(body.value, "data", <<>>), "user_id", 0)
                     ELSE 0]

\* C19: a delivered message whose handling raises nothing is logged and
\* acknowledged exactly once, whatever its event_type.  Handling it appends
\* one info line with its event_type (and its user_id for the three known
\* types); leaving message.process() then acknowledges it; an acknowledged
\* message never changes again: it is not delivered a second time.
C19_HandledIsAckedOnce ==
    /\ [][\A i \in DOMAIN queue :
             /\ (queue[i].state = "ready" /\ queue'[i].state # "ready"
                    /\ ~queue'[i].raised) =>
                   /\ queue'[i].state = "handled"
                   /\ Len(cLog') = Len(cLog) + 1
                   /\ LET line == cLog'[Len(cLog')]
                          want == EventLine(queue[i].body)
                      IN  /\ line.level = want.level
                          /\ line.event_type = want.event_type
                          /\ line.user_id = want.user_id
             /\ (queue[i].state = "handled" /\ ~queue[i].raised
                    /\ queue'[i] # queue[i]) =>
                   queue'[i] = [queue[i] EXCEPT !.state = "acked"]
             /\ queue[i].state = "acked" => queue'[i] = queue[i]
         ]_vars
    /\ [](Len(cLog) = Cardinality({i \in DOMAIN queue : queue[i].state # "ready"}))

C19_Witness ==
    /\ Len(queue) = 2 /\ Len(cLog) = 2
    /\ queue[1].body = EventBody("user.created", [user_id |-> 7])
    /\ queue[2].body = EventBody("user.renamed", [user_id |-> 7])
    /\ \A i \in 1 .. 2 : queue[i].state = "acked" /\ ~queue[i].raised
    /\ \E k \in 1 .. 2 : cLog[k].event_type = "user.created" /\ cLog[k].user_id = 7
                            /\ cLog[k].level = "info"
    /\ \E k \in 1 .. 2 : cLog[k].event_type = "user.renamed" /\ cLog[k].level = "info"

\* the consumer is stopped: no consumer task, no open channel or connection
Stopped == lcPc = "idle" /\ lcTask = "none" /\ lcOpen = {}

\* C20: stop_consumer called while the consumer is stopped (before any start,
\* or again after a stop) returns at once: it raises nothing, calls no
\* cancel and no close, logs "stopped", and leaves the module globals, the
\* closed objects and the broker as they were, so the consumer is stopped
\* after it too.
C20_StopIsIdempotent ==
    [][(Stopped /\ StopBegin) =>
          /\ lcLog' = Append(lcLog, "stopped")
          /\ Stopped'
          /\ UNCHANGED <<lcConnection, lcChannel, lcTask, lcOpen, lcBroker>>
      ]_vars

C20_Witness ==
    /\ Stopped /\ lcCount = 3
    /\ lcLog = <<"started", "cancel", "close_channel", "close_connection",
                 "stopped", "stopped">>
    /\ lcConnection = 0 /\ lcChannel = 0

\* start_consumer has completed and nothing was stopped since: the consumer
\* task exists, the cached channel and connection are open
Running ==
    /\ lcPc = "idle" /\ lcTask # "none"
    /\ Obj("channel", lcChannel) \in lcOpen
    /\ Obj("connection", lcConnection) \in lcOpen

Consumers(broker) == {b \in broker : b[1] = "consumer"}

\* C21: stop_consumer on a running consumer first cancels the consumer task
\* and awaits it, with everything still open; a channel is closed only once
\* the task has been awaited and dropped, while the connection is open; the
\* connection is closed only once no channel is open.  When stop_consumer
\* returns (it logs "stopped") the consumer is stopped: no task, no open
\* channel or connection, and no consumer left at the broker to invoke the
\* handler.
C21_StopOrder ==
    /\ [][/\ (Running /\ StopBegin) =>
                /\ lcLog' = Append(lcLog, "cancel")
                /\ lcPc' = "awaiting_task"
                /\ lcOpen' = lcOpen
          /\ (lcPc = "awaiting_task" /\ lcPc' # lcPc) =>
                /\ lcOpen' = lcOpen
                /\ lcBroker' = lcBroker
          /\ (lcOpen' # lcOpen /\ Obj("channel", lcChannel) \in lcOpen) =>
                /\ lcPc = "closing_channel"
                /\ lcTask = "none"
                /\ Obj("connection", lcConnection) \in lcOpen'
          /\ (Obj("connection", lcConnection) \in lcOpen
                 /\ Obj("connection", lcConnection) \notin lcOpen') =>
                /\ lcPc = "closing_connection"
                /\ lcTask = "none"
                /\ \A o \in lcOpen : o[1] # "channel"
          /\ (lcLog' # lcLog /\ lcLog'[Len(lcLog')] = "stopped") =>
                /\ Stopped'
                /\ Consumers(lcBroker') = {}
         ]_vars
    /\ [](Stopped => Consumers(lcBroker) = {})

C21_Witness ==
    /\ Stopped /\ lcCount = 2
    /\ lcLog = <<"started", "cancel", "close_channel", "close_connection",
                 "stopped">>
    /\ <<"binding", "user.deleted">> \in lcBroker

\* start_consumer has logged "RabbitMQ consumer started" at least once
StartCompleted == \E k \in DOMAIN lcLog : lcLog[k] = "started"

\* the consumer is running and its consumer task has not failed
Consuming == Running /\ lcTask \in {"pending", "done"}

\* message i is in user_events_queue and has not been delivered
Waiting(i) == i \in DOMAIN queue /\ queue[i].state = "ready"

\* C22: start_consumer has declared the exchange and the queue and bound the
\* queue under user.created, user.updated and user.deleted by the time it
\* creates the consumer task, and no consumer is registered before that.
\* Hence an event published under one of the three types after start_consumer
\* completed is routed into user_events_queue, and a message waiting there is
\* eventually delivered to the handler unless the consumer stops running.
C22_BoundBeforeDelivery ==
    /\ [](StartCompleted =>
             /\ <<"exchange", "user_events">> \in lcBroker
             /\ <<"queue", "user_events_queue">> \in lcBroker
             /\ \A key \in KnownEvents : <<"binding", key>> \in lcBroker)
    /\ [](Consumers(lcBroker) # {} => StartCompleted)
    /\ [][\A i \in DOMAIN queue' :
             (i \notin DOMAIN queue /\ StartCompleted) => queue'[i].state = "ready"
         ]_vars
    /\ \A i \in 1 .. MaxDeliveries :
          Waiting(i) ~> (~Waiting(i) \/ ~Consuming)

C22_Witness ==
    /\ Consuming /\ lcTask = "done"
    /\ Len(queue) = 2
    /\ queue[1].state = "unroutable"
    /\ queue[2].state = "acked"
    /\ queue[2].body = EventBody("user.deleted", [user_id |-> 7])
    /\ Len(cLog) = 1 /\ cLog[1].event_type = "user.deleted" /\ cLog[1].user_id = 7

\* a publish begins its get_channel in this step
BeginsPublish(s) == req[s].pc = "publish" /\ req'[s].pc # "publish"

\* C23: under sequential use, a publish opens a connection exactly when none
\* is cached or the cached one is closed, and a channel exactly when none is
\* cached or the cached one is closed; otherwise it takes the cached ones; a
\* connection or channel is only ever opened in place of a missing or closed
\* one, and a message is published on the cached channel, which is open and
\* lies on the cached, open connection.
C23_CachedUnlessClosed ==
    [][/\ \A s \in Slots :
            BeginsPublish(s) =>
                /\ (req'[s].pc = "connecting") <=>
                       (pubConnection = 0 \/ ConnectionIsClosed(pubConnection))
                /\ req'[s].pc # "connecting" =>
                       /\ req'[s].connection = pubConnection
                       /\ (req'[s].pc = "opening") <=>
                              (pubChannel = NoChannel \/ ChannelIsClosed(pubChannel))
                       /\ req'[s].pc # "opening" =>
                              /\ req'[s].pc = "declaring"
                              /\ req'[s].channel = pubChannel
       /\ connCount' # connCount =>
              /\ pubConnection = 0 \/ ConnectionIsClosed(pubConnection)
              /\ pubConnection' = connCount' /\ connCount' = connCount + 1
       /\ chanCount' # chanCount =>
              /\ pubChannel = NoChannel \/ ChannelIsClosed(pubChannel)
              /\ pubChannel'.id = chanCount' /\ chanCount' = chanCount + 1
              /\ pubChannel'.connection = pubConnection
       /\ Len(exchange') > Len(exchange) =>
              /\ \E s \in Slots : req[s].pc = "publishing"
                                  /\ req[s].channel = pubChannel
              /\ ~ChannelIsClosed(pubChannel)
              /\ pubChannel.connection = pubConnection]_vars

\* the first connection closed after a publish, and a later request has
\* published on a channel of the second connection
C23_Witness ==
    /\ <<"connection", 1>> \in pubClosed
    /\ pubConnection = 2
    /\ Len(exchange) = 2
    /\ \E s \in Slots : /\ req[s].pc = "respond"
                        /\ req[s].pubError = "none"
                        /\ req[s].channel = pubChannel
                        /\ pubChannel.connection = 2

\* connections the producer has opened and nobody has closed
OpenConnections == {c \in 1..connCount : ~ConnectionIsClosed(c)}

\* C24: when two concurrent publishes each opened a connection and the broker
\* failed neither, both messages are published, one of the two connections is
\* the cached one, and the other connection is closed.
C24_RaceSelfHeals ==
    (/\ connCount = 2
     /\ \A s \in Slots : req[s].pc = "done" /\ req[s].pubError = "none")
    => /\ Len(exchange) = 2
       /\ pubConnection \in 1..connCount
       /\ OpenConnections = {pubConnection}

\* C29: in every reachable state, a cached channel that is open was opened on
\* the connection that is cached.
C29_CachedChannelOnCachedConnection ==
    (pubChannel # NoChannel /\ ~ChannelIsClosed(pubChannel))
        => pubChannel.connection = pubConnection

\* the lines of a log with the event `event`
LinesOf(log, event) == {i \in DOMAIN log : log[i].event = event}

\* C25: when self.app raises, the exception that leaves the middleware is the
\* one self.app raised, the middleware has sent nothing but the application's
\* own messages, and no "Request completed" is logged for the request; when
\* the exception is an Exception, "Request failed" is logged exactly once.
C25_FailureLoggedAndReraised ==
    mwPc = "raised" =>
        /\ mwExc.app \in RaiseChoices
        /\ mwExc.out = mwExc.app
        /\ Len(mwSent) = Len(mwAppMsg)
        /\ LinesOf(mwLog, "Request completed") = {}
        /\ IsException(mwExc.app) =>
               /\ Cardinality(LinesOf(mwLog, "Request failed")) = 1
               /\ mwLog[Len(mwLog)].event = "Request failed"
               /\ mwLog[Len(mwLog)].trace_id = mwTraceId

\* the application raised an Exception after it had started its response
C25_Witness ==
    /\ mwPc = "raised"
    /\ mwExc.app = "RuntimeError"
    /\ Len(mwAppMsg) >= 1
    /\ Cardinality(LinesOf(mwLog, "Request failed")) = 1

\* C26: while an HTTP request is handled, the logging context binds trace_id
\* to this request's trace id and holds nothing else but what this request
\* bound itself: no binding of an earlier request is left.
C26_ContextHoldsOnlyThisRequest ==
    (mwScope.type = "http" /\ mwPc # "idle") =>
        /\ <<"trace_id", mwTraceId>> \in mwCtx
        /\ \A p \in mwCtx : /\ p[1] = "trace_id" => p[2] = mwTraceId
                            /\ p[1] # "trace_id" => p[2] = <<mwCount>>

\* the second request of a worker is being handled under a generated trace
\* id, and its context holds that trace id alone
C26_Witness ==
    /\ mwScope.type = "http"
    /\ mwCount = 2
    /\ mwPc = "app"
    /\ mwTraceId = Uuid4(1)
    /\ mwCtx = {<<"trace_id", mwTraceId>>}

\* the user.deleted events on the exchange for the id
DeletedEvents(user_id) ==
    {i \in DOMAIN exchange : /\ exchange[i].routing_key = "user.deleted"
                             /\ exchange[i].body.value.data.user_id = user_id}

\* C27: of the concurrent delete requests for one id at most one answers 200,
\* every other one answers 404, and at most one user.deleted event is
\* published for the id.
C27_OneDeleteWins ==
    \A user_id \in TargetIds :
        LET done == {s \in Slots : /\ req[s].pc = "done"
                                   /\ req[s].op = "delete"
                                   /\ req[s].uid = user_id}
        IN  /\ Cardinality({s \in done : req[s].status = 200}) <= 1
            /\ \A s \in done : req[s].status \in {200, 404}
            /\ Cardinality(DeletedEvents(user_id)) <= 1

\* the id an event on the exchange is about
EventUserId(event) == event.body.value.data.user_id

\* C28: a user.updated or user.deleted event for an id that a create request
\* of this run has committed comes after the user.created event for that id.
C28_CreatedEventFirst ==
    \A i \in DOMAIN exchange :
        exchange[i].routing_key \in {"user.updated", "user.deleted"} =>
            \A s \in Slots :
                (req[s].op = "create" /\ req[s].committed = EventUserId(exchange[i]))
                    => \E j \in 1 .. i - 1 :
                          /\ exchange[j].routing_key = "user.created"
                          /\ EventUserId(exchange[j]) = EventUserId(exchange[i])

\* both slots hold a finished update of the user: one request patched only
\* the name, the other only the surname, and both answered 200
BothUpdatesReturned(user_id) ==
    \E s, t \in Slots :
        /\ \A r \in {s, t} : /\ req[r].pc = "done"
                             /\ req[r].op = "update"
                             /\ req[r].uid = user_id
                             /\ req[r].status = 200
        /\ req[s].data = [name |-> "n1", surname |-> None, password |-> None]
        /\ req[t].data = [name |-> None, surname |-> "s1", password |-> None]

\* C30: after two concurrent updates of one user, one setting only the name
\* and the other only the surname, have both returned 200, the stored user
\* has both new values and its password is untouched.
C30_DisjointUpdatesBothApply ==
    \A user_id \in TargetIds :
        BothUpdatesReturned(user_id) =>
            LET row == SelectUser(store, user_id)
            IN  /\ row # NoUser
                /\ row.name = "n1"
                /\ row.surname = "s1"
                /\ row.password = StoredUser.password

\* both updates have returned 200 and the row has both new values
C30_Witness ==
    /\ BothUpdatesReturned(1)
    /\ SelectUser(store, 1).name = "n1"
    /\ SelectUser(store, 1).surname = "s1"

====
